---- MODULE Spec2Model ----
(***************************************************************************)
(* Model of the A1-notation helpers of botcity/plugins/excel/plugin.py     *)
(* (get_column_number, get_column_name, parse_range and                    *)
(* BotExcelPlugin.get_range, specification Spec), of the sheets of a       *)
(* BotExcelPlugin (specification SpecSheets) and of the main functions of  *)
(* the two bots (specification SpecBots).                                  *)
(*                                                                         *)
(* A Python str is a sequence of code points (65 = 'A', 97 = 'a',          *)
(* 48 = '0', 58 = ':').  None is the empty tuple and a bounded integer n   *)
(* is the one-element tuple <<n>>.  The outcome of a call is a record:     *)
(* raised is "None" on a normal return and the name of the exception       *)
(* otherwise, and the returned value is in the field of its type (number,  *)
(* name, info or cells).                                                   *)
(***************************************************************************)
EXTENDS Integers, Sequences, FiniteSets

\* the last call of a helper: its arguments, its outcome and the column names
\* it passed to get_column_number
VARIABLES call, arg_number, arg_name, arg_range, arg_rows, ret, column_calls

\* a BotExcelPlugin: _sheets in insertion order, active_sheet, the last method
\* called on it, and whether only create_sheet, and rename_sheet and
\* set_active_sheet on existing sheets, have been called so far
VARIABLES sheets, active_sheet, done, basic_only

\* a run of a bot's main: which bot, where it is, whether its browser (and the
\* login bot's driver) is open, and how many lines it has printed
VARIABLES bot, pc, browser, driver, output

fnvars == <<call, arg_number, arg_name, arg_range, arg_rows, ret, column_calls>>

sheetvars == <<sheets, active_sheet, done, basic_only>>

botvars == <<bot, pc, browser, driver, output>>

vars == <<fnvars, sheetvars, botvars>>

(***************************************************************************)
(* Bounds of the checked inputs.                                           *)
(***************************************************************************)
MaxIndex == 1000
MaxNameLen == 3
MaxRangeLen == 5
MaxSliceRangeLen == 4
MaxRows == 3
MaxCols == 3
\* rows held by one plugin, over all its sheets
MaxSheetRows == 3
\* lines of output counted for one run of a bot, and elements one
\* find_elements call returns
MaxOutput == 10
MaxElements == 2

(***************************************************************************)
(* Python values.                                                          *)
(***************************************************************************)
None == <<>>
Some(n) == <<n>>
AllNone ==
    [start_column |-> None, end_column |-> None,
     start_row |-> None, end_row |-> None]

NoValue ==
    [raised |-> "None", number |-> 0, name |-> <<>>, info |-> AllNone,
     cells |-> <<>>]

ReturnNumber(n) == [NoValue EXCEPT !.number = n]
ReturnName(s) == [NoValue EXCEPT !.name = s]
ReturnInfo(i) == [NoValue EXCEPT !.info = i]
ReturnCells(c) == [NoValue EXCEPT !.cells = c]
Raise(e) == [NoValue EXCEPT !.raised = e]

(***************************************************************************)
(* Character classes.                                                      *)
(***************************************************************************)
\* the regex class [a-zA-Z] on a str pattern: ASCII letters only
IsLetter(c) == c \in 65..90 \/ c \in 97..122

\* the regex class \d on a str pattern: every Unicode decimal digit; the
\* model knows the ASCII block and the ARABIC-INDIC block (U+0660..U+0669)
IsDigit(c) == c \in 48..57 \/ c \in 1632..1641

\* ord(c) of the single character str.upper() yields, for the characters the
\* model draws (ASCII and the ARABIC-INDIC digits)
upper_ord(c) == IF c \in 97..122 THEN c - 32 ELSE c

\* str.upper()
upper(s) == [k \in 1..Len(s) |-> upper_ord(s[k])]

\* 26 ** place
RECURSIVE pow26(_)
pow26(place) == IF place = 0 THEN 1 ELSE 26 * pow26(place - 1)

(***************************************************************************)
(* get_column_number                                                       *)
(***************************************************************************)
\* the for loop over reversed(column_name): after k letters, place = k
RECURSIVE number_loop(_, _)
number_loop(column_name, place) ==
    IF place = Len(column_name) THEN 0
    ELSE (column_name[Len(column_name) - place] - 65 + 1) * pow26(place)
         + number_loop(column_name, place + 1)

get_column_number_validating(column_name) ==
    IF column_name = <<>>
       \/ \E k \in 1..Len(column_name) : ~IsLetter(column_name[k])
    THEN Raise("ValueError")
    ELSE ReturnNumber(number_loop(upper(column_name), 0) - 1)

get_column_number_no_upper(column_name) ==
    ReturnNumber(number_loop(column_name, 0) - 1)

get_column_number(column_name) ==
    ReturnNumber(number_loop(upper(column_name), 0) - 1)

(***************************************************************************)
(* get_column_name                                                         *)
(***************************************************************************)
\* the while loop
RECURSIVE name_loop(_, _)
name_loop(name, column_number) ==
    IF column_number > 0
    THEN name_loop(<<65 + ((column_number - 1) % 26)>> \o name,
                   column_number \div 26)
    ELSE name

get_column_name(column_number) ==
    ReturnName(name_loop(<<65 + (column_number % 26)>>, column_number \div 26))

(***************************************************************************)
(* parse_range                                                             *)
(***************************************************************************)
\* re.match('\A[a-zA-Z]*\d*:?[a-zA-Z]*\d*\Z', s), as the automaton of the
\* pattern: stage 1 [a-zA-Z]*, 2 \d*, 3 :?, 4 [a-zA-Z]*, 5 \d*, then \Z
stage_accepts(stage, c) ==
    CASE stage = 1 -> IsLetter(c)
      [] stage = 2 -> IsDigit(c)
      [] stage = 3 -> c = 58
      [] stage = 4 -> IsLetter(c)
      [] OTHER     -> IsDigit(c)

RECURSIVE regex_from(_, _, _)
regex_from(s, pos, stage) ==
    IF pos > Len(s) THEN TRUE
    ELSE \E st \in stage..5 :
            /\ stage_accepts(st, s[pos])
            /\ regex_from(s, pos + 1, IF st = 3 THEN 4 ELSE st)

\* the pattern without its closing \Z: a prefix of s matches
re_match_range_unanchored(s) ==
    \E n \in 0..Len(s) : regex_from(SubSeq(s, 1, n), 1, 1)

re_match_range(s) == regex_from(s, 1, 1)

\* str.count(':')
count_colon(s) == Cardinality({k \in 1..Len(s) : s[k] = 58})

\* str.split(':')
RECURSIVE split_colon(_)
split_colon(s) ==
    IF \A k \in 1..Len(s) : s[k] # 58 THEN <<s>>
    ELSE LET k == CHOOSE i \in 1..Len(s) :
                      s[i] = 58 /\ \A j \in 1..(i - 1) : s[j] # 58
         IN <<SubSeq(s, 1, k - 1)>> \o split_colon(SubSeq(s, k + 1, Len(s)))

\* membership in the class of a one-class pattern: '([a-zA-Z]+)' or '(\d+)'
in_class(class, c) == IF class = "[a-zA-Z]" THEN IsLetter(c) ELSE IsDigit(c)

\* re.search of a one-class run: the leftmost position of the class and the
\* longest run from there; None or the match's group(0)
search_run(class, s) ==
    IF \A k \in 1..Len(s) : ~in_class(class, s[k]) THEN None
    ELSE LET first == CHOOSE i \in 1..Len(s) :
                          /\ in_class(class, s[i])
                          /\ \A j \in 1..(i - 1) : ~in_class(class, s[j])
             last == CHOOSE i \in first..Len(s) :
                         /\ \A j \in first..i : in_class(class, s[j])
                         /\ (i = Len(s) \/ ~in_class(class, s[i + 1]))
         IN Some(SubSeq(s, first, last))

\* the search for '([a-zA-Z]*)': the letters s begins with, none included
search_letters_star(s) ==
    Some(SubSeq(s, 1, Cardinality({i \in 1..Len(s) :
                                     \A k \in 1..i : IsLetter(s[k])})))

search_letters(s) == search_run("[a-zA-Z]", s)

search_digits(s) == search_run("\\d", s)

\* the value int() gives one decimal digit
digit_value(c) == IF c \in 48..57 THEN c - 48 ELSE c - 1632

\* int(s) of a non-empty run of decimal digits
RECURSIVE int(_)
int(s) ==
    IF Len(s) = 0 THEN 0
    ELSE 10 * int(SubSeq(s, 1, Len(s) - 1)) + digit_value(s[Len(s)])

\* range_info with start_row left 1-indexed
range_info_row_not_shifted(start, end) ==
    LET start_column == search_letters(start)
        start_row == search_digits(start)
        end_column == search_letters(end)
        end_row == search_digits(end)
    IN ReturnInfo(
         [start_column |-> IF start_column # None
                           THEN Some(get_column_number(start_column[1]).number)
                           ELSE None,
          end_column |-> IF end_column # None
                         THEN Some(get_column_number(end_column[1]).number + 1)
                         ELSE None,
          start_row |-> IF start_row # None
                        THEN Some(int(start_row[1])) ELSE None,
          end_row |-> IF end_row # None THEN Some(int(end_row[1])) ELSE None])

\* the dict built from the two tokens
range_info(start, end) ==
    LET start_column == search_letters(start)
        start_row == search_digits(start)
        end_column == search_letters(end)
        end_row == search_digits(end)
        sc == IF start_column # None
              THEN get_column_number(start_column[1]) ELSE NoValue
        ec == IF end_column # None
              THEN get_column_number(end_column[1]) ELSE NoValue
    IN IF sc.raised # "None" THEN sc
       ELSE IF ec.raised # "None" THEN ec
       ELSE ReturnInfo(
         [start_column |-> IF start_column # None THEN Some(sc.number) ELSE None,
          end_column |-> IF end_column # None THEN Some(ec.number + 1) ELSE None,
          start_row |-> IF start_row # None
                        THEN Some(int(start_row[1]) - 1) ELSE None,
          end_row |-> IF end_row # None THEN Some(int(end_row[1])) ELSE None])

\* parse_range without the test for None: re.match(pattern, None) raises
parse_range_none_unchecked(range_) ==
    IF range_ = None THEN Raise("TypeError")
    ELSE IF range_ = Some(<<>>) THEN ReturnInfo(AllNone)
    ELSE IF ~re_match_range(range_[1]) THEN Raise("ValueError")
    ELSE LET doubled == IF count_colon(range_[1]) = 0
                        THEN range_[1] \o <<58>> \o range_[1]
                        ELSE range_[1]
             parts == split_colon(doubled)
         IN IF Len(parts) # 2 THEN Raise("ValueError")
            ELSE range_info(parts[1], parts[2])

\* range_ is None or Some(str)
parse_range(range_) ==
    IF range_ = None \/ range_ = Some(<<>>) THEN ReturnInfo(AllNone)
    ELSE IF ~re_match_range(range_[1]) THEN Raise("ValueError")
    ELSE LET doubled == IF count_colon(range_[1]) = 0
                        THEN range_[1] \o <<58>> \o range_[1]
                        ELSE range_[1]
             parts == split_colon(doubled)
         IN IF Len(parts) # 2 THEN Raise("ValueError")
            ELSE range_info(parts[1], parts[2])

\* the column names range_info passes to get_column_number, in call order
range_info_calls(start, end) ==
    (IF search_letters(start) # None THEN <<search_letters(start)[1]>>
     ELSE <<>>)
    \o (IF search_letters(end) # None THEN <<search_letters(end)[1]>>
        ELSE <<>>)

\* the column names parse_range passes to get_column_number
parse_range_calls(range_) ==
    IF range_ = None \/ range_ = Some(<<>>) THEN <<>>
    ELSE IF ~re_match_range(range_[1]) THEN <<>>
    ELSE LET doubled == IF count_colon(range_[1]) = 0
                        THEN range_[1] \o <<58>> \o range_[1]
                        ELSE range_[1]
             parts == split_colon(doubled)
         IN IF Len(parts) # 2 THEN <<>>
            ELSE range_info_calls(parts[1], parts[2])

(***************************************************************************)
(* BotExcelPlugin.get_range                                                *)
(***************************************************************************)
Min(a, b) == IF a < b THEN a ELSE b
Max(a, b) == IF a > b THEN a ELSE b

\* where a slice bound lands in a list of n elements: None is the default,
\* a negative bound counts from the end, and the result is clamped to 0..n
slice_bound(bound, n, default) ==
    IF bound = None THEN default
    ELSE IF bound[1] < 0 THEN Max(n + bound[1], 0)
    ELSE Min(bound[1], n)

\* seq[start:stop]
slice(seq, start, stop) ==
    LET lo == slice_bound(start, Len(seq), 0)
        hi == slice_bound(stop, Len(seq), Len(seq))
    IN [k \in 1..Max(hi - lo, 0) |-> seq[lo + k]]

\* rows is self.as_list(sheet)
get_range(rows, range_) ==
    LET info == parse_range(range_)
    IN IF info.raised # "None" THEN info
       ELSE LET picked == slice(rows, info.info.start_row, info.info.end_row)
            IN ReturnCells([k \in 1..Len(picked) |->
                               slice(picked[k], info.info.start_column,
                                     info.info.end_column)])

(***************************************************************************)
(* Inputs.                                                                 *)
(***************************************************************************)
\* the strings of length n over alphabet
StringsOver(alphabet, n) == [1..n -> alphabet]

\* 'A' 'B' 'Y' 'Z' 'a' 'b' 'z', and the non-letters '1' '@' '[' '-'
NameAlphabet == {65, 66, 89, 90, 97, 98, 122, 49, 64, 91, 45}

ColumnNumbers == 0..MaxIndex

\* 'A' 'b' '0' '1' ':' '-' and the newline
RangeAlphabet == {65, 98, 48, 49, 58, 45, 10}

\* "A1:C10" "B3" "C" "5" "1A:", and two ranges whose row numbers are written
\* with U+0661 ARABIC-INDIC DIGIT ONE: the row 1, and "A1:b10" with that 1
KnownRanges ==
    {<<65, 49, 58, 67, 49, 48>>, <<66, 51>>, <<67>>, <<53>>, <<49, 65, 58>>,
     <<1633>>, <<65, 1633, 58, 98, 1633, 48>>}

\* a sheet's as_list() with nrows rows of ncols cells; each cell holds its
\* own place <<1-indexed row number, 0-indexed column number>>
MakeTable(nrows, ncols) ==
    [r \in 1..nrows |-> [c \in 1..ncols |-> <<r, c - 1>>]]

Tables == {MakeTable(nrows, ncols) : nrows \in 0..MaxRows, ncols \in 1..MaxCols}

EmptyTable == <<>>

(***************************************************************************)
(* BotExcelPlugin: the sheets.                                             *)
(***************************************************************************)
\* a DataFrame is the list of its rows; pd.DataFrame() has none
EmptyFrame == <<>>

\* the method being called on the plugin and the exception it raised; when
\* it did not raise, also its arguments, the sheet it worked on and the frame that
\* sheet held before the call
NoCall ==
    [op |-> "none", raised |-> "None", sheet |-> None, new_name |-> None,
     before |-> EmptyFrame, by_columns |-> <<>>, ascending |-> TRUE,
     start_row |-> None, end_row |-> None]

\* self._sheets is a dict, kept here as the list of its items in key order
dict_has(d, key) == \E k \in 1..Len(d) : d[k].name = key

dict_index(d, key) == CHOOSE k \in 1..Len(d) : d[k].name = key

\* d[key]
dict_get(d, key) == d[dict_index(d, key)].frame

\* d after d.pop(key): the other items keep their order
dict_pop(d, key) ==
    [k \in 1..(Len(d) - 1) |-> IF k < dict_index(d, key) THEN d[k] ELSE d[k + 1]]

\* d after d[key] = value: a key already there keeps its position, a new
\* key goes last
dict_set(d, key, value) ==
    IF dict_has(d, key) THEN [d EXCEPT ![dict_index(d, key)].frame = value]
    ELSE Append(d, [name |-> key, frame |-> value])

\* list(self._sheets.keys())
list_sheets(d) == [k \in 1..Len(d) |-> d[k].name]

\* is row a before row b in the order of the columns by (0-indexed labels)
row_less(a, b, by, ascending) ==
    \E i \in 1..Len(by) :
        /\ \A j \in 1..(i - 1) : a[by[j] + 1] = b[by[j] + 1]
        /\ IF ascending THEN a[by[i] + 1] < b[by[i] + 1]
           ELSE a[by[i] + 1] > b[by[i] + 1]

\* DataFrame.sort_values(by, ascending=ascending): each row goes behind the
\* rows that come before it in the order, rows that tie keep their order
sort_values(frame, by, ascending) ==
    LET place(i) == 1 + Cardinality({j \in 1..Len(frame) :
                        \/ row_less(frame[j], frame[i], by, ascending)
                        \/ /\ ~row_less(frame[i], frame[j], by, ascending)
                           /\ j < i})
    IN [k \in 1..Len(frame) |->
           frame[CHOOSE i \in 1..Len(frame) : place(i) = k]]

\* the frame after frame.iloc[start:stop] = value, set by position
iloc_set(frame, start, stop, value) ==
    LET lo == slice_bound(start, Len(frame), 0)
    IN [k \in 1..Len(frame) |->
           IF k > lo /\ k <= lo + Len(value) THEN value[k - lo] ELSE frame[k]]

\* 'row - 1 if row else None' of sort
sort_bound(row) == IF row = None \/ row[1] = 0 THEN None ELSE Some(row[1] - 1)

\* the frame of a sheet after sort
sorted_frame(frame, by, ascending, start_row, end_row) ==
    iloc_set(frame, sort_bound(start_row), sort_bound(end_row),
             sort_values(slice(frame, sort_bound(start_row), sort_bound(end_row)),
                         by, ascending))

\* the column labels a frame has: none for pd.DataFrame(), else 0..width-1
has_columns(frame, by) ==
    Len(frame) > 0 /\ \A k \in 1..Len(by) : by[k] >= 0 /\ by[k] < Len(frame[1])

\* how many rows the plugin holds
RECURSIVE total_rows(_)
total_rows(d) == IF d = <<>> THEN 0 ELSE Len(Head(d).frame) + total_rows(Tail(d))

\* sheet names: "a" and "b"; None is the name of a new plugin's sheet and,
\* as an argument, the default that stands for the active sheet
SheetStrings == {Some(<<97>>), Some(<<98>>)}
SheetNames == {None} \cup SheetStrings
CellValues == {1, 2}
Rows == {<<v>> : v \in CellValues}
SortColumns == {<<65>>, <<66>>}

\* BotExcelPlugin(): active_sheet is None and _sheets is {None: DataFrame()}
NewPlugin ==
    /\ sheets = <<[name |-> None, frame |-> EmptyFrame]>>
    /\ active_sheet = None
    /\ done = NoCall
    /\ basic_only = TRUE

\* create_sheet(sheet)
create_sheet ==
    /\ done.op = "none"
    /\ \E sheet \in SheetStrings :
        /\ sheets' = dict_set(sheets, sheet, EmptyFrame)
        /\ done' = [NoCall EXCEPT !.op = "create_sheet", !.sheet = sheet]
        /\ UNCHANGED <<active_sheet, basic_only>>
        /\ UNCHANGED <<fnvars, botvars>>

\* remove_sheet(sheet)
remove_sheet ==
    /\ done.op = "none"
    /\ \E sheet \in SheetNames :
        /\ IF dict_has(sheets, sheet)
           THEN /\ sheets' = dict_pop(sheets, sheet)
                /\ done' = [NoCall EXCEPT !.op = "remove_sheet", !.sheet = sheet]
           ELSE /\ sheets' = sheets
                /\ done' = [NoCall EXCEPT !.op = "remove_sheet",
                                          !.raised = "KeyError"]
        /\ basic_only' = FALSE
        /\ UNCHANGED active_sheet
        /\ UNCHANGED <<fnvars, botvars>>

\* rename_sheet(new_name, sheet)
rename_sheet ==
    /\ done.op = "none"
    /\ \E new_name \in SheetStrings, sheet_arg \in SheetNames :
        LET sheet == IF sheet_arg = None THEN active_sheet ELSE sheet_arg
        IN /\ IF dict_has(sheets, sheet)
              THEN /\ sheets' = dict_set(dict_pop(sheets, sheet), new_name,
                                         dict_get(sheets, sheet))
                   /\ done' = [NoCall EXCEPT !.op = "rename_sheet",
                                             !.sheet = sheet,
                                             !.new_name = new_name,
                                             !.before = dict_get(sheets, sheet)]
                   /\ UNCHANGED basic_only
              ELSE /\ sheets' = sheets
                   /\ done' = [NoCall EXCEPT !.op = "rename_sheet",
                                             !.raised = "KeyError"]
                   /\ basic_only' = FALSE
           /\ UNCHANGED active_sheet
           /\ UNCHANGED <<fnvars, botvars>>

\* set_active_sheet(sheet)
set_active_sheet ==
    /\ done.op = "none"
    /\ \E sheet \in SheetNames :
        /\ IF sheet = None /\ sheets = <<>>
           THEN /\ active_sheet' = active_sheet
                /\ done' = [NoCall EXCEPT !.op = "set_active_sheet",
                                          !.raised = "StopIteration"]
                /\ basic_only' = FALSE
           ELSE /\ active_sheet' = IF sheet = None THEN sheets[1].name ELSE sheet
                /\ done' = [NoCall EXCEPT !.op = "set_active_sheet",
                                          !.sheet = sheet]
                /\ basic_only' = (basic_only /\ (sheet = None \/ dict_has(sheets, sheet)))
        /\ UNCHANGED sheets
        /\ UNCHANGED <<fnvars, botvars>>

\* add_row(row, sheet)
add_row ==
    /\ done.op = "none"
    /\ total_rows(sheets) < MaxSheetRows
    /\ \E row \in Rows, sheet_arg \in SheetNames :
        LET sheet == IF sheet_arg = None THEN active_sheet ELSE sheet_arg
        IN /\ IF dict_has(sheets, sheet)
              THEN /\ sheets' = dict_set(sheets, sheet,
                                         Append(dict_get(sheets, sheet), row))
                   /\ done' = [NoCall EXCEPT !.op = "add_row", !.sheet = sheet]
              ELSE /\ sheets' = sheets
                   /\ done' = [NoCall EXCEPT !.op = "add_row",
                                             !.raised = "KeyError"]
           /\ basic_only' = FALSE
           /\ UNCHANGED active_sheet
           /\ UNCHANGED <<fnvars, botvars>>

\* sort(by_columns, ascending, start_row, end_row, sheet); start_row = 2 and
\* end_row = None are the defaults
sort ==
    /\ done.op = "none"
    /\ \E by_columns \in SortColumns, ascending \in BOOLEAN,
       start_row \in {Some(n) : n \in 1..MaxSheetRows},
       end_row \in {None} \cup {Some(n) : n \in 1..MaxSheetRows},
       sheet_arg \in SheetNames :
        LET by == [k \in 1..Len(by_columns) |->
                      get_column_number(<<by_columns[k]>>).number]
            sheet == IF sheet_arg = None THEN active_sheet ELSE sheet_arg
            raised == [NoCall EXCEPT !.op = "sort", !.raised = "KeyError"]
            called == [NoCall EXCEPT !.op = "sort", !.sheet = sheet,
                                     !.by_columns = by_columns,
                                     !.ascending = ascending,
                                     !.start_row = start_row,
                                     !.end_row = end_row]
        IN /\ IF ~dict_has(sheets, sheet)
              THEN /\ sheets' = sheets
                   /\ done' = raised
              ELSE IF ~has_columns(dict_get(sheets, sheet), by)
              THEN /\ sheets' = sheets
                   /\ done' = raised
              ELSE /\ sheets' = dict_set(sheets, sheet,
                                         sorted_frame(dict_get(sheets, sheet), by,
                                                      ascending, start_row, end_row))
                   /\ done' = [called EXCEPT !.before = dict_get(sheets, sheet)]
           /\ basic_only' = FALSE
           /\ UNCHANGED active_sheet
           /\ UNCHANGED <<fnvars, botvars>>

\* 'return self', or the exception reaching the caller: the call is over
Return ==
    /\ done.op # "none"
    /\ done' = NoCall
    /\ UNCHANGED <<sheets, active_sheet, basic_only>>
    /\ UNCHANGED <<fnvars, botvars>>

NextSheets ==
    \/ create_sheet
    \/ remove_sheet
    \/ rename_sheet
    \/ set_active_sheet
    \/ add_row
    \/ sort
    \/ Return

(***************************************************************************)
(* The bots.                                                               *)
(***************************************************************************)
\* no bot has been started: bot is "busca" (bot-busca-dado-site) or "precos"
\* (bot-monitoramento-precos-site) once main runs, pc is the statement main
\* is at, browser is the WebBot's browser, driver is the seleniumbase Driver
NotRunning ==
    /\ bot = "none"
    /\ pc = "not started"
    /\ browser = "not started"
    /\ driver = "not started"
    /\ output = 0

\* the count of lines written after n calls of print
written(n) == IF output + n > MaxOutput THEN MaxOutput ELSE output + n

\* a try block of the login bot whose except clause prints the exception:
\* the find_element and click succeed or raise, and main goes on either way
guarded_click(at, next, lines_ok) ==
    /\ pc = at
    /\ \/ output' = written(lines_ok)
       \/ output' = written(1)
    /\ pc' = next
    /\ UNCHANGED <<bot, browser, driver>>
    /\ UNCHANGED <<fnvars, sheetvars>>

\* a 'while True' loop of the login bot: break once the field is found and
\* clicked, print the exception and try again otherwise
retry_field(at, next, lines_ok) ==
    /\ pc = at
    /\ \/ /\ output' = written(lines_ok)
          /\ pc' = next
       \/ /\ output' = written(1)
          /\ pc' = at
    /\ UNCHANGED <<bot, browser, driver>>
    /\ UNCHANGED <<fnvars, sheetvars>>

\* a statement outside any try block: it succeeds, or its exception ends main
unguarded(at, next, lines_ok) ==
    /\ pc = at
    /\ \/ /\ output' = written(lines_ok)
          /\ pc' = next
       \/ /\ output' = output
          /\ pc' = "raised"
    /\ UNCHANGED <<bot, browser, driver>>
    /\ UNCHANGED <<fnvars, sheetvars>>

\* bot-busca-dado-site: bot = WebBot() and its settings
BuscaMain ==
    /\ bot = "none"
    /\ bot' = "busca"
    /\ pc' = "Driver"
    /\ UNCHANGED <<browser, driver, output>>
    /\ UNCHANGED <<fnvars, sheetvars>>

\* driver = Driver(uc=True, headless=False); driver.get(...);
\* driver.maximize_window()
BuscaDriver ==
    /\ bot = "busca"
    /\ pc = "Driver"
    /\ driver' = "open"
    /\ pc' = "cookie"
    /\ UNCHANGED <<bot, browser, output>>
    /\ UNCHANGED <<fnvars, sheetvars>>

BuscaCookie ==
    /\ bot = "busca"
    /\ guarded_click("cookie", "email_field", 1)

BuscaEmail ==
    /\ bot = "busca"
    /\ retry_field("email_field", "password_field", 1)

BuscaPassword ==
    /\ bot = "busca"
    /\ retry_field("password_field", "login", 0)

BuscaLogin ==
    /\ bot = "busca"
    /\ guarded_click("login", "data", 0)

BuscaData ==
    /\ bot = "busca"
    /\ guarded_click("data", "report", 0)

BuscaReport ==
    /\ bot = "busca"
    /\ guarded_click("report", "monthly", 0)

BuscaMonthly ==
    /\ bot = "busca"
    /\ guarded_click("monthly", "primeiro_arquivo", 0)

BuscaPrimeiroArquivo ==
    /\ bot = "busca"
    /\ guarded_click("primeiro_arquivo", "planilhas", 0)

\* planilhas = pd.ExcelFile(caminho_arquivo_excel).sheet_names; print
BuscaPlanilhas ==
    /\ bot = "busca"
    /\ unguarded("planilhas", "df", 1)

\* df = pd.read_excel(caminho_arquivo_excel, sheet_name="ABR"); two prints
BuscaReadExcel ==
    /\ bot = "busca"
    /\ unguarded("df", "colunas_dados", 2)

\* colunas_dados = df[[...]]; print
BuscaColunasDados ==
    /\ bot = "busca"
    /\ unguarded("colunas_dados", "quit", 1)

\* driver.quit()
BuscaQuit ==
    /\ bot = "busca"
    /\ pc = "quit"
    /\ driver' = "quit"
    /\ pc' = "stop_browser"
    /\ UNCHANGED <<bot, browser, output>>
    /\ UNCHANGED <<fnvars, sheetvars>>

\* bot.stop_browser(), the last statement of either main
StopBrowser ==
    /\ bot # "none"
    /\ pc = "stop_browser"
    /\ browser' = "stopped"
    /\ pc' = "returned"
    /\ UNCHANGED <<bot, driver, output>>
    /\ UNCHANGED <<fnvars, sheetvars>>

\* bot-monitoramento-precos-site: the Maestro execution, two prints, and
\* bot = WebBot() with its settings
PrecosMain ==
    /\ bot = "none"
    /\ bot' = "precos"
    /\ pc' = "browse"
    /\ output' = written(2)
    /\ UNCHANGED <<browser, driver>>
    /\ UNCHANGED <<fnvars, sheetvars>>

\* bot.browse("https://www.bemol.com.br/")
PrecosBrowse ==
    /\ bot = "precos"
    /\ pc = "browse"
    /\ browser' = "open"
    /\ pc' = "super_ofertas"
    /\ UNCHANGED <<bot, driver, output>>
    /\ UNCHANGED <<fnvars, sheetvars>>

\* super_ofertas = bot.find_element(...); super_ofertas.click()
PrecosSuperOfertas ==
    /\ bot = "precos"
    /\ unguarded("super_ofertas", "avaliacao", 0)

\* bot.wait(5); avaliacao = bot.find_elements(...); the count is printed,
\* then the text of each element is read, sorted and printed
PrecosAvaliacao ==
    /\ bot = "precos"
    /\ \E found \in 0..MaxElements :
           unguarded("avaliacao", "wait", 1 + found)

\* bot.wait(3000)
PrecosWait ==
    /\ bot = "precos"
    /\ pc = "wait"
    /\ pc' = "stop_browser"
    /\ UNCHANGED <<bot, browser, driver, output>>
    /\ UNCHANGED <<fnvars, sheetvars>>

NextBots ==
    \/ BuscaMain
    \/ BuscaDriver
    \/ BuscaCookie
    \/ BuscaEmail
    \/ BuscaPassword
    \/ BuscaLogin
    \/ BuscaData
    \/ BuscaReport
    \/ BuscaMonthly
    \/ BuscaPrimeiroArquivo
    \/ BuscaPlanilhas
    \/ BuscaReadExcel
    \/ BuscaColunasDados
    \/ BuscaQuit
    \/ PrecosMain
    \/ PrecosBrowse
    \/ PrecosSuperOfertas
    \/ PrecosAvaliacao
    \/ PrecosWait
    \/ StopBrowser

(***************************************************************************)
(* The state machine of the helpers: any of them may be called next on any *)
(* input.                                                                  *)
(***************************************************************************)
Idle ==
    /\ call = "none"
    /\ arg_number = 0
    /\ arg_name = <<>>
    /\ arg_range = None
    /\ arg_rows = EmptyTable
    /\ ret = NoValue
    /\ column_calls = <<>>

Init == Idle /\ NewPlugin /\ NotRunning

CallGetColumnNumber ==
    /\ call = "none"
    /\ \E n \in 0..MaxNameLen : \E name \in StringsOver(NameAlphabet, n) :
        /\ call' = "get_column_number"
        /\ arg_name' = name
        /\ ret' = get_column_number(name)
        /\ arg_number' = 0
        /\ arg_range' = None
        /\ arg_rows' = EmptyTable
        /\ column_calls' = <<>>
    /\ UNCHANGED <<sheetvars, botvars>>

CallGetColumnName ==
    /\ call = "none"
    /\ \E n \in ColumnNumbers :
        /\ call' = "get_column_name"
        /\ arg_number' = n
        /\ ret' = get_column_name(n)
        /\ arg_name' = <<>>
        /\ arg_range' = None
        /\ arg_rows' = EmptyTable
        /\ column_calls' = <<>>
    /\ UNCHANGED <<sheetvars, botvars>>

ParseRangeOf(r) ==
    /\ call' = "parse_range"
    /\ arg_range' = r
    /\ ret' = parse_range(r)
    /\ column_calls' = parse_range_calls(r)
    /\ arg_number' = 0
    /\ arg_name' = <<>>
    /\ arg_rows' = EmptyTable
    /\ UNCHANGED <<sheetvars, botvars>>

CallParseRange ==
    /\ call = "none"
    /\ \/ ParseRangeOf(None)
       \/ \E n \in 0..MaxRangeLen : \E s \in StringsOver(RangeAlphabet, n) :
             ParseRangeOf(Some(s))
       \/ \E s \in KnownRanges : ParseRangeOf(Some(s))

GetRangeOf(rows, r) ==
    /\ call' = "get_range"
    /\ arg_range' = r
    /\ arg_rows' = rows
    /\ ret' = get_range(rows, r)
    /\ column_calls' = parse_range_calls(r)
    /\ arg_number' = 0
    /\ arg_name' = <<>>
    /\ UNCHANGED <<sheetvars, botvars>>

CallGetRange ==
    /\ call = "none"
    /\ \E rows \in Tables :
        \/ GetRangeOf(rows, None)
        \/ \E n \in 0..MaxSliceRangeLen :
              \E s \in StringsOver(RangeAlphabet, n) : GetRangeOf(rows, Some(s))
        \/ \E s \in KnownRanges : GetRangeOf(rows, Some(s))

\* the caller is done with the returned value; the functions keep no state
Finish ==
    /\ call # "none"
    /\ call' = "none"
    /\ arg_number' = 0
    /\ arg_name' = <<>>
    /\ arg_range' = None
    /\ arg_rows' = EmptyTable
    /\ ret' = NoValue
    /\ column_calls' = <<>>
    /\ UNCHANGED <<sheetvars, botvars>>

Next ==
    \/ CallGetColumnNumber
    \/ CallGetColumnName
    \/ CallParseRange
    \/ CallGetRange
    \/ Finish

Spec == Init /\ [][Next]_vars

\* the methods of one BotExcelPlugin, called in any order
SpecSheets == Init /\ [][NextSheets]_vars

\* one run of the main of one of the two bots
SpecBots == Init /\ [][NextBots]_vars

(***************************************************************************)
(* The notions the properties are stated in.                               *)
(***************************************************************************)
IsAsciiLetter(c) == c \in 65..90 \/ c \in 97..122

IsLetterString(s) == Len(s) > 0 /\ \A k \in 1..Len(s) : IsAsciiLetter(s[k])

IsUpperString(s) == Len(s) > 0 /\ \A k \in 1..Len(s) : s[k] \in 65..90

Uppercase(s) == [k \in 1..Len(s) |-> IF s[k] \in 97..122 THEN s[k] - 32 ELSE s[k]]

\* the digit of a letter in either case: A = a = 1 .. Z = z = 26
LetterDigit(c) == IF c \in 65..90 THEN c - 64 ELSE c - 96

\* a letter string read as a base-26 numeral, most significant letter first
RECURSIVE NumeralValue(_)
NumeralValue(s) ==
    IF s = <<>> THEN 0
    ELSE 26 * NumeralValue(SubSeq(s, 1, Len(s) - 1)) + LetterDigit(s[Len(s)])

\* the same sum with ord(c.upper()) - 64 as the digit of any character c
RECURSIVE PositionalValue(_)
PositionalValue(s) ==
    IF s = <<>> THEN 0
    ELSE 26 * PositionalValue(SubSeq(s, 1, Len(s) - 1))
         + ((IF s[Len(s)] \in 97..122 THEN s[Len(s)] - 32 ELSE s[Len(s)]) - 64)

\* [A-Za-z]*[0-9]*
TokenGrammar(t) ==
    \E i \in 0..Len(t) :
        /\ \A k \in 1..i : IsAsciiLetter(t[k])
        /\ \A k \in (i + 1)..Len(t) : t[k] \in 48..57

\* [A-Za-z]*[0-9]*(:[A-Za-z]*[0-9]*)?
ClaimGrammar(s) ==
    \/ TokenGrammar(s)
    \/ \E k \in 1..Len(s) :
          /\ s[k] = 58
          /\ TokenGrammar(SubSeq(s, 1, k - 1))
          /\ TokenGrammar(SubSeq(s, k + 1, Len(s)))

(***************************************************************************)
(* Column names and column numbers.                                        *)
(***************************************************************************)
\* C1: for every i in 0..1000, get_column_number(get_column_name(i)) = i.
C1_IndexRoundTrip ==
    call = "get_column_name" =>
        /\ ret.raised = "None"
        /\ get_column_number(ret.name) = ReturnNumber(arg_number)

\* C2: for every non-empty string s of ASCII letters,
\* get_column_name(get_column_number(s)) is s in upper case.
C2_NameRoundTrip ==
    (call = "get_column_number" /\ IsLetterString(arg_name)) =>
        /\ ret.raised = "None"
        /\ get_column_name(ret.number) = ReturnName(Uppercase(arg_name))

\* C3: get_column_name(i) is the upper-case letter string whose bijective
\* base-26 value is i + 1; 0 gives "A", 25 "Z", 26 "AA", 701 "ZZ", 702 "AAA".
C3_BijectiveName ==
    call = "get_column_name" =>
        /\ ret.raised = "None"
        /\ IsUpperString(ret.name)
        /\ NumeralValue(ret.name) = arg_number + 1
        /\ (arg_number = 0 => ret.name = <<65>>)
        /\ (arg_number = 25 => ret.name = <<90>>)
        /\ (arg_number = 26 => ret.name = <<65, 65>>)
        /\ (arg_number = 701 => ret.name = <<90, 90>>)
        /\ (arg_number = 702 => ret.name = <<65, 65, 65>>)

\* C4: for every non-empty string s of ASCII letters in any case,
\* get_column_number(s) is the base-26 value of s (A = a = 1 .. Z = z = 26,
\* most significant letter first) minus 1; "A" gives 0, "Z" 25, "AA" 26,
\* "AZ" 51, "BA" 52, and "aa" gives what "AA" gives.
C4_ColumnNumberValue ==
    (call = "get_column_number" /\ IsLetterString(arg_name)) =>
        /\ ret = ReturnNumber(NumeralValue(arg_name) - 1)
        /\ (Uppercase(arg_name) = <<65>> => ret.number = 0)
        /\ (Uppercase(arg_name) = <<90>> => ret.number = 25)
        /\ (Uppercase(arg_name) = <<65, 65>> => ret.number = 26)
        /\ (Uppercase(arg_name) = <<65, 90>> => ret.number = 51)
        /\ (Uppercase(arg_name) = <<66, 65>> => ret.number = 52)

\* get_column_number("bA") has returned 52
C4_Witness ==
    /\ call = "get_column_number"
    /\ arg_name = <<98, 65>>
    /\ ret = ReturnNumber(52)

\* C8 as stated: get_column_number signals an error when its argument is
\* empty or holds a character that is not an ASCII letter.
C8_InvalidNameRaises ==
    (call = "get_column_number" /\ ~IsLetterString(arg_name)) =>
        ret.raised # "None"

\* C8 amended: get_column_number signals no error for such an argument; it
\* returns -1 for the empty string, and otherwise the positional sum with
\* ord(c.upper()) - 64 as the digit of each character c, minus 1.
C8_NoValidation ==
    (call = "get_column_number" /\ ~IsLetterString(arg_name)) =>
        /\ ret = ReturnNumber(PositionalValue(arg_name) - 1)
        /\ (arg_name = <<>> => ret.number = -1)

\* get_column_number("1") has returned -16
C8_Witness ==
    /\ call = "get_column_number"
    /\ arg_name = <<49>>
    /\ ret = ReturnNumber(-16)

(***************************************************************************)
(* Ranges.                                                                 *)
(***************************************************************************)
IsDecimalDigit(c) == c \in 48..57 \/ c \in 1632..1641

HasColon(s) == \E k \in 1..Len(s) : s[k] = 58

ColonAt(s) == CHOOSE k \in 1..Len(s) : s[k] = 58

StartToken(s) == SubSeq(s, 1, ColonAt(s) - 1)

EndToken(s) == SubSeq(s, ColonAt(s) + 1, Len(s))

\* the letters a token begins with, and what follows them
LettersOf(t) ==
    SubSeq(t, 1, Cardinality({i \in 1..Len(t) :
                                \A k \in 1..i : IsAsciiLetter(t[k])}))

DigitsOf(t) == SubSeq(t, Len(LettersOf(t)) + 1, Len(t))

IsToken(t) == \A k \in 1..Len(DigitsOf(t)) : IsDecimalDigit(DigitsOf(t)[k])

\* the four fields C6 names for the tokens start and end
FieldsOf(start, end) ==
    [start_column |-> IF LettersOf(start) = <<>> THEN None
                      ELSE Some(get_column_number(LettersOf(start)).number),
     end_column |-> IF LettersOf(end) = <<>> THEN None
                    ELSE Some(get_column_number(LettersOf(end)).number + 1),
     start_row |-> IF DigitsOf(start) = <<>> THEN None
                   ELSE Some(int(DigitsOf(start)) - 1),
     end_row |-> IF DigitsOf(end) = <<>> THEN None
                 ELSE Some(int(DigitsOf(end)))]

\* C5: parse_range raises the malformed-range error for exactly the
\* non-empty strings outside [A-Za-z]*[0-9]*(:[A-Za-z]*[0-9]*)? and returns
\* a ParsedRange for the others.
C5_RejectsExactlyNonGrammar ==
    (call = "parse_range" /\ arg_range # None /\ arg_range # Some(<<>>)) =>
        (ret.raised = "ValueError" <=> ~ClaimGrammar(arg_range[1]))

\* C6: for an accepted range L1 D1 ':' L2 D2 the result has
\* start_column = get_column_number(L1), end_column = get_column_number(L2) + 1,
\* start_row = int(D1) - 1 and end_row = int(D2), a field being None exactly
\* when its letters or digits are absent; "A1:C10" gives 0, 3, 0, 10.
C6_RangeFields ==
    (/\ call = "parse_range"
     /\ arg_range # None
     /\ ret.raised = "None"
     /\ HasColon(arg_range[1])) =>
        /\ IsToken(StartToken(arg_range[1]))
        /\ IsToken(EndToken(arg_range[1]))
        /\ ret.info = FieldsOf(StartToken(arg_range[1]), EndToken(arg_range[1]))
        /\ (arg_range[1] = <<65, 49, 58, 67, 49, 48>> =>
               ret.info = [start_column |-> Some(0), end_column |-> Some(3),
                            start_row |-> Some(0), end_row |-> Some(10)])

\* parse_range("A1:C10") has returned its four bounded fields
C6_Witness ==
    /\ call = "parse_range"
    /\ arg_range = Some(<<65, 49, 58, 67, 49, 48>>)
    /\ ret = ReturnInfo([start_column |-> Some(0), end_column |-> Some(3),
                     start_row |-> Some(0), end_row |-> Some(10)])

\* the cells of a result of get_range
CellsOf(result) ==
    UNION {{result[i][j] : j \in 1..Len(result[i])} : i \in 1..Len(result)}

\* the cells of rows whose row number and column lie between the two row
\* numbers and the two column names of the tokens, an absent one leaving
\* its side open
CellsBetween(rows, start, end) ==
    {cell \in CellsOf(rows) :
        /\ DigitsOf(start) = <<>> \/ cell[1] >= int(DigitsOf(start))
        /\ DigitsOf(end) = <<>> \/ cell[1] <= int(DigitsOf(end))
        /\ LettersOf(start) = <<>> \/ cell[2] >= NumeralValue(LettersOf(start)) - 1
        /\ LettersOf(end) = <<>> \/ cell[2] <= NumeralValue(LettersOf(end)) - 1}

\* C7: get_range returns exactly the cells of the table whose 1-indexed row
\* number lies between the range's two row numbers inclusive and whose column
\* lies between its two column names inclusive, an absent bound leaving that
\* side unrestricted.
C7_SelectsSpreadsheetCells ==
    (/\ call = "get_range"
     /\ arg_range # None
     /\ ret.raised = "None"
     /\ ClaimGrammar(arg_range[1])) =>
        CellsOf(ret.cells) =
            IF HasColon(arg_range[1])
            THEN CellsBetween(arg_rows, StartToken(arg_range[1]),
                              EndToken(arg_range[1]))
            ELSE CellsBetween(arg_rows, arg_range[1], arg_range[1])

\* C9: for every accepted range t without ':', parse_range(t) equals
\* parse_range(t + ":" + t); "B3" gives 1, 2, 2, 3, "C" gives columns 2, 3
\* and no rows, "5" gives rows 4, 5 and no columns.
C9_SingleTokenShorthand ==
    (/\ call = "parse_range"
     /\ arg_range # None
     /\ ret.raised = "None"
     /\ ~HasColon(arg_range[1])) =>
        /\ ret = parse_range(Some(arg_range[1] \o <<58>> \o arg_range[1]))
        /\ (arg_range[1] = <<66, 51>> =>
               ret.info = [start_column |-> Some(1), end_column |-> Some(2),
                            start_row |-> Some(2), end_row |-> Some(3)])
        /\ (arg_range[1] = <<67>> =>
               ret.info = [start_column |-> Some(2), end_column |-> Some(3),
                            start_row |-> None, end_row |-> None])
        /\ (arg_range[1] = <<53>> =>
               ret.info = [start_column |-> None, end_column |-> None,
                            start_row |-> Some(4), end_row |-> Some(5)])

C11_EmptyRangeIsWholeSheet ==
    (call = "parse_range" /\ (arg_range = None \/ arg_range = Some(<<>>))) =>
        ret = ReturnInfo(AllNone)

\* parse_range(None) has returned the four None fields
C11_Witness ==
    /\ call = "parse_range"
    /\ arg_range = None
    /\ ret = ReturnInfo(AllNone)

\* C14: every column name parse_range passes to get_column_number is a
\* non-empty string of ASCII letters.
C14_ColumnCallsAreLetterStrings ==
    call \in {"parse_range", "get_range"} =>
        \A k \in 1..Len(column_calls) : IsLetterString(column_calls[k])

\* parse_range("A1:C10") has passed "A" and "C"
C14_Witness ==
    /\ call = "parse_range"
    /\ arg_range = Some(<<65, 49, 58, 67, 49, 48>>)
    /\ column_calls = <<<<65>>, <<67>>>>

\* C15: in the result of an accepted range, start_row and start_column are
\* None or >= 0 and end_row and end_column are None or >= 1.
C15_ValidSliceBounds ==
    (call = "parse_range" /\ arg_range # None /\ ret.raised = "None") =>
        /\ ret.info.start_row = None \/ ret.info.start_row[1] >= 0
        /\ ret.info.start_column = None \/ ret.info.start_column[1] >= 0
        /\ ret.info.end_row = None \/ ret.info.end_row[1] >= 1
        /\ ret.info.end_column = None \/ ret.info.end_column[1] >= 1

(***************************************************************************)
(* Sheets.                                                                 *)
(***************************************************************************)
\* C12: after rename_sheet(new_name, sheet) on an existing sheet the renamed
\* sheet is the last element of list_sheets(), it holds the content the old
\* sheet had, and the old name is no longer listed when it differs from
\* new_name.
C12_RenamedSheetIsLast ==
    (done.op = "rename_sheet" /\ done.raised = "None") =>
        /\ sheets # <<>>
        /\ list_sheets(sheets)[Len(sheets)] = done.new_name
        /\ sheets[Len(sheets)].frame = done.before
        /\ done.sheet # done.new_name =>
               \A k \in 1..Len(sheets) : list_sheets(sheets)[k] # done.sheet

\* rows lo..hi of a frame, 1-indexed, both included
RowsBetween(frame, lo, hi) == [k \in 1..(hi - lo + 1) |-> frame[lo + k - 1]]

\* is after a reordering of before that is in the order of the columns
IsSortOf(after, before, by_columns, ascending) ==
    /\ Len(after) = Len(before)
    /\ \A r \in Rows : Cardinality({k \in 1..Len(after) : after[k] = r})
                        = Cardinality({k \in 1..Len(before) : before[k] = r})
    /\ \A k \in 1..(Len(after) - 1) :
           LET c == LetterDigit(by_columns[1])
           IN IF ascending THEN after[k][c] <= after[k + 1][c]
              ELSE after[k][c] >= after[k + 1][c]

\* C13: sort(by_columns, start_row=s, end_row=e) reorders exactly the rows
\* s..e, row e included, and leaves the other rows in place; without end_row
\* it sorts through the last row, so the defaults sort all rows but the first.
C13_SortsRowsInclusive ==
    (done.op = "sort" /\ done.raised = "None") =>
        LET before == done.before
            after == dict_get(sheets, done.sheet)
            s == done.start_row[1]
            e == IF done.end_row = None THEN Len(before) ELSE done.end_row[1]
        IN (s <= e /\ e <= Len(before)) =>
               /\ Len(after) = Len(before)
               /\ \A k \in 1..Len(before) : (k < s \/ k > e) => after[k] = before[k]
               /\ IsSortOf(RowsBetween(after, s, e), RowsBetween(before, s, e),
                           done.by_columns, done.ascending)

\* C16: while only create_sheet, rename_sheet of existing sheets and
\* set_active_sheet of existing sheets have been called on a new plugin,
\* active_sheet is one of list_sheets().
C16_ActiveSheetListed ==
    basic_only => \E k \in 1..Len(sheets) : list_sheets(sheets)[k] = active_sheet

(***************************************************************************)
(* The bots.                                                               *)
(***************************************************************************)
\* C17: once a bot's main has started a browser, the run does not end, by
\* returning or by an exception, before bot.stop_browser() has been called
\* and, in the login bot, driver.quit() too.
C17_BrowserReleased ==
    (pc \in {"returned", "raised"} /\ (browser # "not started" \/ driver # "not started")) =>
        /\ browser = "stopped"
        /\ bot = "busca" => driver = "quit"

====
